---- MODULE Spec2Model ----
(***************************************************************************)
(* git-rebase-chain: one run of the command, from argument parsing to the  *)
(* exit of the process.  The program is single threaded; every step of the *)
(* model is one call of exc (one git process), or the code that runs       *)
(* between two calls.  The git repository is the environment: its refs,    *)
(* its remote branches and the position of HEAD are state, and the exit    *)
(* status of every git process is drawn nondeterministically.              *)
(***************************************************************************)
EXTENDS Integers, Sequences, FiniteSets, TLC

\* Longest history head..merge-base the model enumerates.
MaxChain == 3

\* Python's None (push = None, ref["remote"] = None).
None == "None"

\* Exit status that apply_rebase treats as "stopped for manual resolution".
ConflictCode == 1

\* Output of `git remote show`.
Remotes == <<"o", "u">>

\* The title (%f) of the target commit, and the titles commits can carry.
TargetTitle == "base"
Titles == {"base", "feat"}

\* Hashes: <<"c", i>> is the i-th commit (newest first) of head..merge-base,
\* <<"n", i>> the i-th commit of the history read back after the rebase step,
\* <<"t", 0>> the target, <<"f", 0>> a merge-base that is not the target,
\* <<"x", 0>> a commit outside all of these.
Elsewhere == <<"x", 0>>
ForkPoint == <<"f", 0>>
TargetHash == <<"t", 0>>
StartPos == <<"start", 0>>
OldHash(i) == <<"c", i>>
\* git.py:184: the commit head_name resolves to, the newest of head..merge-base.
ResolvedHead == OldHash(1)
NewHash(i) == <<"n", i>>

---------------------------------------------------------------------------
(* Ref decorations as `git log --format=%d` prints them, one token per ref, *)
(* a token being the "/"-separated segments of the printed name.           *)

RECURSIVE Join(_)
Join(segs) ==
    IF Len(segs) = 0 THEN ""
    ELSE IF Len(segs) = 1 THEN segs[1]
    ELSE segs[1] \o "/" \o Join(Tail(segs))

NoRef == [name |-> "", path |-> "", remote |-> None]

RECURSIVE MatchRemote(_, _)
\* git.py:96-102, the for loop over remotes: first remote that prefixes ref.
MatchRemote(segs, remotes) ==
    IF Len(remotes) = 0 THEN NoRef
    ELSE IF Len(segs) > 1 /\ segs[1] = Head(remotes)
         THEN [name |-> Join(Tail(segs)), path |-> Join(segs), remote |-> Head(remotes)]
         ELSE MatchRemote(segs, Tail(remotes))

\* git.py:85-114.  A token [arrow, segs] is "HEAD -> <segs>" when arrow is set.
parse_ref(tok, remotes) ==
    LET segs == tok.segs
        heads == Len(segs) > 2 /\ segs[1] = "refs" /\ segs[2] = "heads"
        ref == IF heads THEN SubSeq(segs, 3, Len(segs)) ELSE segs
        rem == IF heads THEN NoRef ELSE MatchRemote(segs, remotes)
    IN  IF rem # NoRef THEN rem
        ELSE IF Join(ref) = "HEAD" THEN NoRef
        ELSE [name |-> Join(ref), path |-> "refs/heads/" \o Join(ref), remote |-> None]

\* git.py:134-158
parse_log_line(line, remotes) ==
    LET individual_refs == [k \in 1..Len(line.tokens) |-> parse_ref(line.tokens[k], remotes)]
    IN  [hash  |-> line.hash,
         refs  |-> SelectSeq(individual_refs, LAMBDA r : r # NoRef),
         title |-> line.title]

Tok(segs) == [arrow |-> FALSE, segs |-> segs]
HeadTok == [arrow |-> FALSE, segs |-> <<"HEAD">>]

\* The refs of the repository that can decorate the history, in the order
\* git prints them, and the path each is stored under.
RefTokens == << Tok(<<"a">>), Tok(<<"b">>), Tok(<<"o", "a">>) >>
TokPath(tok) == parse_ref(tok, Remotes).path
RefPaths == {"refs/heads/a", "refs/heads/b", "refs/heads/main",
             "o/a", "o/b", "u/a", "u/b"}
RemoteBranches == {"o", "u"} \X {"a", "b"}

NoHash == <<"", 0>>
NoCommit == [hash |-> NoHash, refs |-> <<>>, title |-> ""]
\* No line: input() is not holding one.
NoLine == <<"EOF">>

VARIABLES
    args,              \* parse_args(): push, dry, force, verbose, quiet
    titles,            \* repository: titles of head..merge-base, newest first
    refs,              \* repository: ref path -> hash (local and remote-tracking)
    remote,            \* the remotes: <<remote, branch>> -> hash
    position,          \* repository: where HEAD is
    pc,                \* the statement the run is at
    caller,            \* which call of get_log is running
    log,               \* get_log: the lines `git log` printed
    line,              \* apply_rebase: the line input() returned
    merge_base,        \* get_target
    current_head,      \* main
    primary_chain,     \* get_target
    target_commit,     \* get_target / main
    rebase_chain,      \* get_target / main
    rebase_ancestor,   \* get_target / main
    new_commit,        \* main
    new_rebase_chain,  \* relabel
    i, j,              \* relabel: index of the pair, index of the ref
    pushed_to_remote,  \* relabel
    cmds,              \* the mutating git commands exc was called with, in order
    lastCode,          \* exit status of the last git process that ran
    caught,            \* main's except NonzeroResponse clause ran
    exitCode           \* exit status of the run, -1 while it runs

vars == <<args, titles, refs, remote, position, pc, caller, log, line, merge_base, current_head,
          primary_chain, target_commit, rebase_chain, rebase_ancestor, new_commit,
          new_rebase_chain, i, j, pushed_to_remote, cmds, lastCode, caught, exitCode>>

repoVars == <<titles, refs, remote, position>>
\* main's locals, and the locals of the functions main calls.
mainLocals == <<current_head, target_commit, rebase_chain, rebase_ancestor, new_commit>>
calleeLocals == <<caller, log, line, merge_base, primary_chain, new_rebase_chain, i, j,
                  pushed_to_remote>>

---------------------------------------------------------------------------
(* The repository as git reports it.                                       *)

AllTokens == RefTokens \o << Tok(<<"main">>) >>

\* The %d field of a commit: HEAD when detached there, then the refs on it.
Decoration(h) ==
    (IF position = h THEN <<HeadTok>> ELSE <<>>)
    \o SelectSeq(AllTokens, LAMBDA t : refs[TokPath(t)] = h)

LogLine(h, title) == [hash |-> h, tokens |-> Decoration(h), title |-> title]

\* What `git log base..head --format=format:%H|%d|%f` can print, per call site.
LogOutputs(site) ==
    CASE site = "primary"  -> { [k \in 1..Len(titles) |-> LogLine(OldHash(k), titles[k])] }
      [] site = "target"   -> { <<>>, << LogLine(TargetHash, TargetTitle) >> }
      [] site = "readback" -> { << LogLine(NewHash(1), "rebased") >> }
      [] site = "relabel"  -> { [k \in 1..m |-> LogLine(NewHash(k), "rebased")] : m \in 0..MaxChain }

\* Exit statuses of a git process: success, or a failure that is not a conflict.
Codes == {0, 128}
RebaseCodes == {0, ConflictCode, 128}

\* One call of exc with a mutating command, as cmds records it: the command,
\* the remote and ref name it names, the commit, and exc's dry argument.
Cmd(cmd, rem, ref, hash, dry) ==
    [cmd |-> cmd, remote |-> rem, ref |-> ref, hash |-> hash, dry |-> dry]

---------------------------------------------------------------------------
(* Initial states: the arguments and the repository the run starts in.     *)

Histories == UNION { [1..n -> Titles] : n \in 0..MaxChain }

\* Refs a, b and o/a each sit on one commit of the history or elsewhere;
\* main is on the target.  The branch a of remote o is where o/a mirrors it.
InitRefs(at) ==
    [p \in RefPaths |->
        IF p = "refs/heads/main" THEN TargetHash
        ELSE IF \E k \in 1..Len(RefTokens) : TokPath(RefTokens[k]) = p /\ at[k] > 0
             THEN OldHash(at[CHOOSE k \in 1..Len(RefTokens) : TokPath(RefTokens[k]) = p])
             ELSE Elsewhere]

Init ==
    /\ args \in [push : {None, "o", "u"}, dry : BOOLEAN, force : BOOLEAN,
                 verbose : {1, 2}, quiet : BOOLEAN]
    /\ args.quiet = (args.verbose > 1)
    /\ titles \in Histories
    /\ \E at \in [1..Len(RefTokens) -> 0..Len(titles)] : refs = InitRefs(at)
    \* the flag check exits before the repository is looked at
    /\ args.quiet => titles = <<>>
    /\ remote = [b \in RemoteBranches |-> IF b = <<"o", "a">> THEN refs["o/a"] ELSE Elsewhere]
    /\ position = StartPos
    /\ pc = "main"
    /\ caller = "none"
    /\ log = <<>>
    /\ line = NoLine
    /\ merge_base = NoHash
    /\ current_head = NoHash
    /\ primary_chain = <<>>
    /\ target_commit = NoCommit
    /\ rebase_chain = <<>>
    /\ rebase_ancestor = NoCommit
    /\ new_commit = NoCommit
    /\ new_rebase_chain = <<>>
    /\ i = 0
    /\ j = 0
    /\ pushed_to_remote = FALSE
    /\ cmds = <<>>
    /\ lastCode = 0
    /\ caught = FALSE
    /\ exitCode = -1

---------------------------------------------------------------------------
(* Ways a step ends.                                                       *)

\* sys.exit(code), a return from main (status 0), or an exception nothing
\* catches (a traceback, status 1).
Exit(code) ==
    /\ pc' = "done"
    /\ exitCode' = code
    /\ UNCHANGED caught

\* An except clause that ends the run itself, without the final checkout.
RaiseThenExit ==
    /\ pc' = "done"
    /\ caught' = TRUE
    /\ exitCode' = 1
    /\ caller' = "none"
    /\ log' = <<>>
    /\ line' = NoLine
    /\ merge_base' = NoHash
    /\ primary_chain' = <<>>
    /\ new_rebase_chain' = <<>>
    /\ i' = 0
    /\ j' = 0
    /\ pushed_to_remote' = FALSE
    /\ UNCHANGED mainLocals

\* A NonzeroResponse raised inside main's try: the frames of the functions
\* main called are unwound (their locals are gone), the except clause reports
\* the error and main goes on to the checkout of current_head (cmd.py:91-95).
Raise ==
    /\ pc' = "restore"
    /\ caught' = TRUE
    /\ caller' = "none"
    /\ log' = <<>>
    /\ line' = NoLine
    /\ merge_base' = NoHash
    /\ primary_chain' = <<>>
    /\ new_rebase_chain' = <<>>
    /\ i' = 0
    /\ j' = 0
    /\ pushed_to_remote' = FALSE
    /\ UNCHANGED <<exitCode, mainLocals>>

Goto(label) ==
    /\ pc' = label
    /\ UNCHANGED <<caught, exitCode>>

---------------------------------------------------------------------------
(* main, up to the call of get_target.                                     *)

\* cmd.py:66-73
Main ==
    /\ pc = "main"
    /\ IF args.verbose > 1 /\ args.quiet THEN Exit(1) ELSE Goto("get_current_head")
    /\ UNCHANGED <<args, repoVars, mainLocals, calleeLocals, cmds, lastCode>>

\* cmd.py:75, git.py:116-131: outside the try, a failure is not caught.
get_current_head ==
    /\ pc = "get_current_head"
    /\ \E code \in Codes :
        /\ lastCode' = code
        /\ IF code # 0
           THEN Exit(1) /\ UNCHANGED current_head
           ELSE Goto("rev_parse_head") /\ current_head' = position
    /\ UNCHANGED <<args, repoVars, calleeLocals, cmds, target_commit, rebase_chain,
                   rebase_ancestor, new_commit>>

\* git.py:184 and git.py:185: exc("rev-parse", "--verify", ...)
RevParse(here, next) ==
    /\ pc = here
    /\ \E code \in Codes :
        /\ lastCode' = code
        /\ IF code # 0 THEN Raise ELSE Goto(next) /\ UNCHANGED <<mainLocals, calleeLocals>>
    /\ UNCHANGED <<args, repoVars, cmds>>

RevParseHead == RevParse("rev_parse_head", "rev_parse_target")
RevParseTarget == RevParse("rev_parse_target", "merge_base")

\* A get_target without the "already based" exit.
AlreadyBasedNever(mb, target) == FALSE

\* git.py:188
AlreadyBased(mb, target) == mb = target

\* git.py:186-192: merge-base, the "already based on target" exit, and the
\* entry into get_log(head, merge_base).
MergeBase ==
    /\ pc = "merge_base"
    /\ \E code \in Codes, mb \in {TargetHash, ForkPoint} :
        /\ lastCode' = code
        /\ IF code # 0 THEN Raise
           ELSE /\ merge_base' = mb
                /\ IF AlreadyBased(mb, TargetHash)
                   THEN Exit(0) /\ UNCHANGED caller
                   ELSE Goto("log") /\ caller' = "primary"
                /\ UNCHANGED <<mainLocals, log, primary_chain, line, new_rebase_chain,
                               i, j, pushed_to_remote>>
    /\ UNCHANGED <<args, repoVars, cmds>>

---------------------------------------------------------------------------
(* get_log: `git log`, then `git remote show`, then the parse.             *)

\* git.py:164
ExecLog ==
    /\ pc = "log"
    /\ \E code \in Codes, out \in LogOutputs(caller) :
        /\ lastCode' = code
        /\ IF code # 0 THEN Raise
           ELSE /\ Goto("remote_show")
                /\ log' = out
                /\ UNCHANGED <<mainLocals, caller, merge_base, primary_chain, line,
                               new_rebase_chain, i, j, pushed_to_remote>>
    /\ UNCHANGED <<args, repoVars, cmds>>

\* A walk that skips a commit with the target's title instead of stopping.
WalkChainSkipping(chain, title, k) ==
    SelectSeq(SubSeq(chain, k, Len(chain)), LAMBDA c : c.title # title)

\* A walk that puts each commit in front of the ones it has already taken.
WalkChainPrepending(chain, title, k) ==
    LET hits == { m \in k..Len(chain) : chain[m].title = title }
        last == IF hits = {} THEN Len(chain)
                ELSE (CHOOSE m \in hits : \A h \in hits : m <= h) - 1
    IN  [m \in 1..(last - k + 1) |-> chain[last + 1 - m]]

\* A walk that appends the commit with the target's title before it stops.
WalkChainInclusive(chain, title, k) ==
    LET hits == { m \in k..Len(chain) : chain[m].title = title }
    IN  IF hits = {} THEN SubSeq(chain, k, Len(chain))
        ELSE SubSeq(chain, k, CHOOSE m \in hits : \A h \in hits : m <= h)

\* git.py:200-207, the loop over primary_chain from index k on: the commits
\* before the first one that carries the target's title.
RECURSIVE WalkChain(_, _, _)
WalkChain(chain, title, k) ==
    IF k > Len(chain) THEN <<>>
    ELSE IF chain[k].title = title THEN <<>>
    ELSE <<chain[k]>> \o WalkChain(chain, title, k + 1)

\* A walk that falls back on the oldest commit when no title matches.
WalkAncestorOrOldest(chain, title) ==
    IF \E k \in 1..Len(chain) : chain[k].title = title
    THEN chain[CHOOSE k \in 1..Len(chain) :
                 /\ chain[k].title = title
                 /\ \A m \in 1..(k - 1) : chain[m].title # title]
    ELSE IF Len(chain) > 0 THEN chain[Len(chain)] ELSE NoCommit

\* git.py:201-205: rebase_ancestor as the loop leaves it (NoCommit is None).
WalkAncestor(chain, title) ==
    LET n == Len(WalkChain(chain, title, 1))
    IN  IF n < Len(chain) THEN chain[n + 1] ELSE NoCommit

\* A check that also turns down a new chain as long as the original.
LengthMismatchOrEqual(new_chain, original_chain) == Len(new_chain) >= Len(original_chain)

\* git.py:292
LengthMismatch(new_chain, original_chain) == Len(new_chain) # Len(original_chain)

\* git.py:165-173 (the list get_log returns, its own frame gone) and what
\* the caller does with it: get_target (git.py:192-198), apply_rebase
\* (git.py:247) with main (cmd.py:79-83), relabel (git.py:290-297).
RemoteShow ==
    /\ pc = "remote_show"
    /\ \E code \in Codes :
        /\ lastCode' = code
        /\ LET lines == [k \in 1..Len(log) |-> parse_log_line(log[k], Remotes)]
           IN  IF code # 0 THEN Raise
               ELSE /\ log' = <<>>
                    /\ CASE caller = "primary" ->
                            /\ primary_chain' = lines
                            /\ caller' = "target"
                            /\ Goto("log")
                            /\ UNCHANGED <<mainLocals, merge_base, line, new_rebase_chain, i, j,
                                           pushed_to_remote>>
                         [] caller = "target" ->
                            /\ IF Len(lines) = 0
                               THEN Exit(1) /\ UNCHANGED target_commit
                               ELSE Goto("walk") /\ target_commit' = lines[1]
                            /\ UNCHANGED <<caller, merge_base, primary_chain, line, new_rebase_chain,
                                           i, j, pushed_to_remote, current_head, rebase_chain,
                                           rebase_ancestor, new_commit>>
                         [] caller = "readback" ->
                            /\ new_commit' = lines[1]
                            /\ caller' = "relabel"
                            /\ Goto("log")
                            /\ UNCHANGED <<merge_base, primary_chain, line, new_rebase_chain, i, j,
                                           pushed_to_remote, current_head, target_commit,
                                           rebase_chain, rebase_ancestor>>
                         [] caller = "relabel" ->
                            /\ new_rebase_chain' = lines
                            /\ IF LengthMismatch(lines, rebase_chain)
                               THEN Goto("revert") /\ UNCHANGED <<i, j>>
                               ELSE Goto("loop1") /\ i' = 1 /\ j' = 1
                            /\ pushed_to_remote' = FALSE
                            /\ UNCHANGED <<mainLocals, caller, merge_base, primary_chain, line>>
    /\ UNCHANGED <<args, repoVars, cmds>>

\* git.py:200-217
Walk ==
    /\ pc = "walk"
    /\ rebase_chain' = WalkChain(primary_chain, target_commit.title, 1)
    /\ rebase_ancestor' = WalkAncestor(primary_chain, target_commit.title)
    /\ IF rebase_ancestor' = NoCommit THEN Exit(1) ELSE Goto("apply_rebase")
    /\ UNCHANGED <<args, repoVars, calleeLocals, cmds, lastCode, current_head,
                   target_commit, new_commit>>

---------------------------------------------------------------------------
(* apply_rebase                                                            *)

\* git.py:230-233: what the except clause does with the exit status of
\* `git rebase`: the label the run goes on at.
AfterRebase(code) ==
    IF code = ConflictCode THEN "status" ELSE "log"

\* git.py:227-233 and cmd.py:80-81.  A rebase that ran leaves HEAD detached
\* at the newest commit it got to; one that failed outright leaves HEAD.
ApplyRebase ==
    /\ pc = "apply_rebase"
    /\ IF Len(rebase_chain) = 0
       THEN /\ Exit(0)
            /\ UNCHANGED <<caller, cmds, lastCode, position>>
       ELSE \E code \in RebaseCodes :
            /\ lastCode' = code
            /\ cmds' = Append(cmds, Cmd("rebase", None, "", rebase_chain[1].hash, FALSE))
            /\ position' = IF code \in {0, ConflictCode} THEN NewHash(1) ELSE position
            /\ caller' = "readback"
            /\ Goto(AfterRebase(code))
    /\ UNCHANGED <<args, titles, refs, remote, mainLocals, log, merge_base,
                   primary_chain, line, new_rebase_chain, i, j, pushed_to_remote>>

\* git.py:234-237: exc("status") runs inside the except clause; its failure
\* is a new NonzeroResponse, which main catches.
Status ==
    /\ pc = "status"
    /\ \E code \in Codes :
        /\ lastCode' = code
        /\ IF code # 0 THEN Raise ELSE Goto("wait") /\ UNCHANGED <<mainLocals, calleeLocals>>
    /\ UNCHANGED <<args, repoVars, cmds>>

\* str.strip() and str.lower() on a line of input, a sequence of characters.
RECURSIVE LStrip(_)
LStrip(s) == IF Len(s) > 0 /\ Head(s) = " " THEN LStrip(Tail(s)) ELSE s
RECURSIVE RStrip(_)
RStrip(s) == IF Len(s) > 0 /\ s[Len(s)] = " " THEN RStrip(SubSeq(s, 1, Len(s) - 1)) ELSE s
Strip(s) == RStrip(LStrip(s))
LowerChar(c) == IF c = "C" THEN "c" ELSE IF c = "X" THEN "x" ELSE c
Lower(s) == [k \in 1..Len(s) |-> LowerChar(s[k])]

Continue == <<"c", "o", "n", "t", "i", "n", "u", "e">>
Inputs == { <<"c">>, <<" ", "C", " ">>, Continue, <<"c", "c">>, <<"x">>, <<>> }

\* An acknowledgement that compares the line as typed, without lower().
AcknowledgedAsTyped(inp) == Strip(inp) \in { <<"c">>, Continue }

\* git.py:241
Acknowledged(inp) == Lower(Strip(inp)) \in { <<"c">>, Continue }

\* git.py:239-241: the head of a turn of the while loop: the prompt is written
\* and input() returns a line.  Nothing bounds the number of turns.
Wait ==
    /\ pc = "wait"
    /\ \E inp \in Inputs : line' = inp
    /\ Goto("input")
    /\ UNCHANGED <<args, repoVars, mainLocals, caller, log, merge_base, primary_chain,
                   new_rebase_chain, i, j, pushed_to_remote, cmds, lastCode>>

\* git.py:241-247: the test on the line; break goes on to the read-back of
\* git.py:247, anything else to the next turn.  The line is not kept.
Answer ==
    /\ pc = "input"
    /\ IF Acknowledged(line) THEN Goto("log") ELSE Goto("wait")
    /\ line' = NoLine
    /\ UNCHANGED <<args, repoVars, mainLocals, caller, log, merge_base, primary_chain,
                   new_rebase_chain, i, j, pushed_to_remote, cmds, lastCode>>

---------------------------------------------------------------------------
(* relabel                                                                 *)

\* git.py:52-54 and 56-57: a dry call runs no process, so it cannot fail.
ExitCodes(dry) == IF dry THEN {0} ELSE Codes

\* An exc that runs the process whatever dry says.
RanIgnoringDry(dry, code) == code = 0

\* git.py:41-83 for a mutating command: unless dry the process runs, and on
\* status 0 it has had its effect.
Ran(dry, code) == ~dry /\ code = 0

\* git.py:249-262: `git push -f <remote> <hash>:<name>` moves the branch on
\* the remote and, with it, the remote-tracking ref of the local repository.
update_remote(rem, ref, commit, dry, code) ==
    /\ cmds' = Append(cmds, Cmd("push", rem, ref.name, commit.hash, dry))
    /\ lastCode' = IF dry THEN lastCode ELSE code
    /\ remote' = IF Ran(dry, code)
                 THEN [remote EXCEPT ![<<rem, ref.name>>] = commit.hash]
                 ELSE remote
    /\ refs' = IF Ran(dry, code)
               THEN [refs EXCEPT ![rem \o "/" \o ref.name] = commit.hash]
               ELSE refs

\* git.py:264-276: `git update-ref <path> <hash>`
update_local(ref, commit, dry, code) ==
    /\ cmds' = Append(cmds, Cmd("update-ref", None, ref.path, commit.hash, dry))
    /\ lastCode' = IF dry THEN lastCode ELSE code
    /\ refs' = IF Ran(dry, code) THEN [refs EXCEPT ![ref.path] = commit.hash] ELSE refs
    /\ UNCHANGED remote

\* A zip that pairs the chains from opposite ends.
NewOfReversed(new_chain, k) == new_chain[Len(new_chain) + 1 - k]

\* git.py:297: zip pairs original_rebase_chain[k] with new_rebase_chain[k].
NewOf(new_chain, k) == new_chain[k]

\* A test that takes a remote-tracking ref of any remote for a mirror on R.
PushesMirrorAny(push, ref) == push # None /\ ref.remote # None

\* git.py:301
PushesMirror(push, ref) == push # None /\ push = ref.remote

\* A test that does not ask whether --push was given.
PushesLocalUnasked(push, force, pushed) == force /\ ~pushed

\* A test that reads the flag the wrong way round.
PushesLocalInverted(push, force, pushed) == push # None /\ force /\ pushed

\* git.py:307
PushesLocal(push, force, pushed) == push # None /\ force /\ ~pushed

\* A test that takes every ref for a local one.
IsLocalAlways(ref) == TRUE

\* git.py:306
IsLocal(ref) == ref.remote = None

\* git.py:292-295
Revert ==
    /\ pc = "revert"
    /\ \E code \in Codes :
        /\ lastCode' = code
        /\ cmds' = Append(cmds, Cmd("checkout", None, "", rebase_chain[1].hash, FALSE))
        /\ IF code # 0
           THEN Raise /\ UNCHANGED position
           ELSE /\ Exit(1)
                /\ position' = rebase_chain[1].hash
                /\ UNCHANGED <<mainLocals, calleeLocals>>
    /\ UNCHANGED <<args, titles, refs, remote>>

\* git.py:297-303: the head of the for over the pairs, and one turn of the
\* first for over original["refs"].  When the pairs are exhausted relabel
\* returns to main, which goes on to cmd.py:95.
Loop1 ==
    /\ pc = "loop1"
    /\ IF i > Len(rebase_chain)
       THEN /\ Goto("restore")
            /\ UNCHANGED <<mainLocals, calleeLocals, cmds, lastCode, refs, remote>>
       ELSE LET original == rebase_chain[i]
                new == NewOf(new_rebase_chain, i)
            IN  IF j > Len(original.refs)
                THEN /\ Goto("loop2")
                     /\ j' = 1
                     /\ UNCHANGED <<mainLocals, caller, log, merge_base, primary_chain, line,
                                    new_rebase_chain, i, pushed_to_remote,
                                    cmds, lastCode, refs, remote>>
                ELSE IF PushesMirror(args.push, original.refs[j])
                THEN \E code \in ExitCodes(args.dry) :
                     /\ update_remote(args.push, original.refs[j], new, args.dry, code)
                     /\ IF code # 0 THEN Raise
                        ELSE /\ Goto("loop1")
                             /\ pushed_to_remote' = TRUE
                             /\ j' = j + 1
                             /\ UNCHANGED <<mainLocals, caller, log, merge_base, primary_chain, line,
                                            new_rebase_chain, i>>
                ELSE /\ Goto("loop1")
                     /\ j' = j + 1
                     /\ UNCHANGED <<mainLocals, caller, log, merge_base, primary_chain, line,
                                    new_rebase_chain, i, pushed_to_remote,
                                    cmds, lastCode, refs, remote>>
    /\ UNCHANGED <<args, titles, position>>

\* git.py:305-308: one turn of the second for over original["refs"], up to
\* the call of update_local.
Loop2 ==
    /\ pc = "loop2"
    /\ LET original == rebase_chain[i]
           new == NewOf(new_rebase_chain, i)
       IN  IF j > Len(original.refs)
           THEN /\ Goto("loop1")
                /\ i' = i + 1
                /\ j' = 1
                /\ pushed_to_remote' = FALSE
                /\ UNCHANGED <<mainLocals, caller, log, merge_base, primary_chain, line, new_rebase_chain,
                               cmds, lastCode, refs, remote>>
           ELSE IF ~IsLocal(original.refs[j])
           THEN /\ Goto("loop2")
                /\ j' = j + 1
                /\ UNCHANGED <<mainLocals, caller, log, merge_base, primary_chain, line, new_rebase_chain,
                               i, pushed_to_remote, cmds, lastCode, refs, remote>>
           ELSE IF PushesLocal(args.push, args.force, pushed_to_remote)
           THEN \E code \in ExitCodes(args.dry) :
                /\ update_remote(args.push, original.refs[j], new, args.dry, code)
                /\ IF code # 0 THEN Raise
                   ELSE Goto("update_local") /\ UNCHANGED <<mainLocals, calleeLocals>>
           ELSE /\ Goto("update_local")
                /\ UNCHANGED <<mainLocals, calleeLocals, cmds, lastCode, refs, remote>>
    /\ UNCHANGED <<args, titles, position>>

\* git.py:310
UpdateLocal ==
    /\ pc = "update_local"
    /\ \E code \in ExitCodes(args.dry) :
        /\ update_local(rebase_chain[i].refs[j], NewOf(new_rebase_chain, i), args.dry, code)
        /\ IF code # 0 THEN Raise
           ELSE /\ Goto("loop2")
                /\ j' = j + 1
                /\ UNCHANGED <<mainLocals, caller, log, merge_base, primary_chain, line, new_rebase_chain,
                               i, pushed_to_remote>>
    /\ UNCHANGED <<args, titles, position>>

---------------------------------------------------------------------------
(* The end of main.                                                        *)

\* cmd.py:95: outside the try, so a failure ends the run with a traceback.
Restore ==
    /\ pc = "restore"
    /\ \E code \in Codes :
        /\ lastCode' = code
        /\ cmds' = Append(cmds, Cmd("checkout", None, "", current_head, FALSE))
        /\ position' = IF code = 0 THEN current_head ELSE position
        /\ Exit(IF code = 0 THEN 0 ELSE 1)
    /\ UNCHANGED <<args, titles, refs, remote, mainLocals, calleeLocals>>

Next ==
    \/ Main
    \/ get_current_head
    \/ RevParseHead
    \/ RevParseTarget
    \/ MergeBase
    \/ ExecLog
    \/ RemoteShow
    \/ Walk
    \/ ApplyRebase
    \/ Status
    \/ Wait
    \/ Answer
    \/ Revert
    \/ Loop1
    \/ Loop2
    \/ UpdateLocal
    \/ Restore

Spec == Init /\ [][Next]_vars

---------------------------------------------------------------------------
(* Properties of a run.                                                    *)

\* relabel ran its loops to the end and returned to main.
RelabelCompleted == pc = "restore" /\ ~caught

Pairs == 1..Len(rebase_chain)
RefsOf(k) == { rebase_chain[k].refs[n] : n \in 1..Len(rebase_chain[k].refs) }
LocalRefsOf(k) == { r \in RefsOf(k) : r.remote = None }
Issued(c) == { k \in 1..Len(cmds) : cmds[k].cmd = c }
IsNew(h) == h[1] = "n"
\* The rebase ran (exit status 0, or the conflict status and then the wait).
Rebased == position = NewHash(1)

\* C1 as stated: after a rebase and a non-dry relabel that completed, every
\* ref (local or remote-tracking) that was attached to the i-th original
\* commit is stored with the hash of the i-th new commit.
C1_EveryRefMoved ==
    (RelabelCompleted /\ Rebased /\ ~args.dry) =>
        \A k \in Pairs : \A r \in RefsOf(k) : refs[r.path] = new_rebase_chain[k].hash

\* C1, amended: after a non-dry relabel has completed, every local ref that
\* was attached to the i-th original commit is stored, under its unchanged
\* path, with the hash of the i-th new commit.
C1_LocalRefsMoved ==
    (RelabelCompleted /\ ~args.dry) =>
        \A k \in Pairs : \A r \in LocalRefsOf(k) : refs[r.path] = new_rebase_chain[k].hash

C1_Witness ==
    /\ RelabelCompleted
    /\ ~args.dry
    /\ Len(rebase_chain) = 2
    /\ LocalRefsOf(1) # {}
    /\ LocalRefsOf(2) # {}
    /\ refs["refs/heads/a"] # refs["refs/heads/b"]

\* C2: however the run ends, with its last git process having succeeded, HEAD
\* is back at the position the run started from.
C2_EndsAtStart ==
    (pc = "done" /\ lastCode = 0) => position = StartPos

\* The run went through the length-mismatch branch of relabel: it called
\* checkout with the hash of the newest original commit.
MismatchSeen ==
    /\ Len(rebase_chain) > 0
    /\ \E k \in Issued("checkout") : cmds[k].hash = rebase_chain[1].hash

\* C3: a run that found the new chain to differ in length from the original
\* issues no update-ref and no push, and ends with exit status 1.
C3_MismatchIsFatal ==
    (pc = "done" /\ MismatchSeen) =>
        /\ Issued("update-ref") = {}
        /\ Issued("push") = {}
        /\ exitCode = 1

\* No remote-tracking ref for branch name on remote rem decorates the history.
NoMirror(rem, name) ==
    \A k \in 1..Len(primary_chain) : \A n \in 1..Len(primary_chain[k].refs) :
        ~(primary_chain[k].refs[n].remote = rem /\ primary_chain[k].refs[n].name = name)

\* C4: after a rebase and a non-dry relabel with --push R that completed, a
\* local ref on a chain commit that has no mirror on R has its branch on R at
\* the paired new commit when --force is set, and no push names it when
\* --force is not set.
C4_ForcePushesUnmirrored ==
    (RelabelCompleted /\ Rebased /\ ~args.dry /\ args.push # None) =>
        \A k \in Pairs : \A r \in LocalRefsOf(k) :
            NoMirror(args.push, r.name) =>
                IF args.force
                THEN remote[<<args.push, r.name>>] = new_rebase_chain[k].hash
                ELSE \A n \in Issued("push") : cmds[n].ref # r.name

\* C5: a rebase that exits with a status other than 0 and the conflict status
\* is followed at once by main's error handler, not by the read-back.
C5_OtherFailurePropagates ==
    [][(pc = "apply_rebase" /\ Len(cmds') > Len(cmds) /\ lastCode' \notin {0, ConflictCode})
          => (pc' = "restore" /\ caught')]_vars

\* C6: a run in which a git failure propagated to main, or whose flags were
\* ambiguous, ends with exit status 1; exit status 0 means neither happened.
C6_FatalExitsOne ==
    pc = "done" =>
        /\ (caught \/ (args.verbose > 1 /\ args.quiet)) => exitCode = 1
        /\ exitCode \in {0, 1}

\* C7: with --dry no ref of the repository and no branch of a remote is ever
\* moved to a rebased commit, and every update-ref and push is a dry call.
C7_DryMutatesNothing ==
    args.dry =>
        /\ \A p \in RefPaths : ~IsNew(refs[p])
        /\ \A b \in RemoteBranches : ~IsNew(remote[b])
        /\ \A k \in Issued("update-ref") \cup Issued("push") : cmds[k].dry

C7_Witness ==
    /\ args.dry
    /\ RelabelCompleted
    /\ Issued("update-ref") # {}
    /\ Issued("push") # {}

\* C8: once merge-base has answered with the target itself, the run is over
\* with exit status 0, has issued no mutating command, and has left HEAD, the
\* refs and the remotes as they were.
C8_AlreadyBasedNoop ==
    merge_base = TargetHash =>
        /\ pc = "done"
        /\ exitCode = 0
        /\ cmds = <<>>
        /\ position = StartPos
        /\ \A p \in RefPaths : ~IsNew(refs[p])
        /\ \A b \in RemoteBranches : ~IsNew(remote[b])

C8_Witness ==
    /\ merge_base = TargetHash
    /\ pc = "done"
    /\ Len(titles) > 1
    /\ refs["refs/heads/a"] = OldHash(1)

\* Indexes of the candidate chain whose commit carries the target's title.
Matches == { k \in 1..Len(primary_chain) : primary_chain[k].title = target_commit.title }
FirstMatch == CHOOSE k \in Matches : \A m \in Matches : k <= m

\* C9: when chain resolution succeeds, the ancestor is the first commit of
\* the candidate chain with the target's title, and the rebase chain is the
\* candidate chain before it, in order, none of it with the target's title.
C9_ChainIsPrefixBeforeFirstMatch ==
    pc = "apply_rebase" =>
        /\ Matches # {}
        /\ rebase_ancestor = primary_chain[FirstMatch]
        /\ rebase_chain = SubSeq(primary_chain, 1, FirstMatch - 1)
        /\ \A k \in Pairs : rebase_chain[k].title # target_commit.title

C9_Witness ==
    /\ pc = "apply_rebase"
    /\ Len(rebase_chain) = 1
    /\ Cardinality(Matches) = 2

\* No commit of head..merge-base carries the target's title.
NoTitleMatch == \A k \in 1..Len(titles) : titles[k] # TargetTitle

\* C10: when no commit of the candidate chain has the target's title, the
\* run is over right after the walk, with exit status 1 and without having
\* issued a rebase, an update-ref, a push or a checkout.
C10_NoAncestorIsFatal ==
    (target_commit # NoCommit /\ NoTitleMatch /\ pc # "walk") =>
        /\ pc = "done"
        /\ exitCode = 1
        /\ cmds = <<>>

C10_Witness ==
    /\ target_commit # NoCommit
    /\ NoTitleMatch
    /\ pc = "done"
    /\ Len(titles) = 2

C10_WitnessEmpty ==
    /\ target_commit # NoCommit
    /\ pc = "done"
    /\ Len(titles) = 0

---------------------------------------------------------------------------
(* The wait after a conflict.                                              *)

\* The lines of Inputs that read c or continue once trimmed and lowered.
AckLines == { <<"c">>, <<" ", "C", " ">>, Continue }

\* C11: after a conflict the run waits; a turn of the wait issues no command
\* and moves nothing; a line that is c or continue (trimmed, in any case)
\* takes the run straight to the read-back of the rebased head, the same one
\* a clean rebase goes to; any other line puts it back to waiting.
C11_WaitLeavesOnlyOnAck ==
    [][ /\ pc = "wait" => pc' = "input" /\ cmds' = cmds /\ repoVars' = repoVars
        /\ pc = "input" =>
            /\ cmds' = cmds
            /\ repoVars' = repoVars
            /\ lastCode' = lastCode
            /\ IF line \in AckLines
               THEN pc' = "log" /\ caller' = "readback" /\ pc' = AfterRebase(0)
               ELSE pc' = "wait" ]_vars

\* The run holds a line typed with blanks and in upper case.
C11_Witness == pc = "input" /\ line = <<" ", "C", " ">> /\ Rebased

---------------------------------------------------------------------------
(* The rebase step on an empty chain.                                      *)

\* The head commit itself carries the target's title.
HeadMatches == Len(titles) > 0 /\ titles[1] = TargetTitle

\* C12: when the head commit matches the target's title the resolved chain
\* is empty and the rebase step does nothing: no rebase, push, update-ref or
\* checkout is issued, nothing is read back, HEAD stays, and the run ends
\* with status 0 straight after the step.
C12_EmptyChainIsNoop ==
    (HeadMatches /\ rebase_ancestor # NoCommit) =>
        /\ rebase_chain = <<>>
        /\ rebase_ancestor.hash = OldHash(1)
        /\ pc \in {"apply_rebase", "done"}
        /\ cmds = <<>>
        /\ new_commit = NoCommit
        /\ position = StartPos
        /\ ~caught
        /\ pc = "done" => exitCode = 0

\* Such a run has ended, with branch a on the head commit, --push and --force.
C12_Witness ==
    /\ HeadMatches
    /\ rebase_ancestor # NoCommit
    /\ pc = "done"
    /\ refs["refs/heads/a"] = OldHash(1)
    /\ args.push = "o" /\ args.force /\ ~args.dry

---------------------------------------------------------------------------
(* relabel: what is issued for the refs of a pair.                         *)

\* The update-ref and push commands issued for ref r of pair k.
UpdateOf(r, k) ==
    { n \in Issued("update-ref") :
        cmds[n].ref = r.path /\ cmds[n].hash = new_rebase_chain[k].hash }
PushOf(r, k) ==
    { n \in Issued("push") :
        /\ cmds[n].remote = args.push
        /\ cmds[n].ref = r.name
        /\ cmds[n].hash = new_rebase_chain[k].hash }

\* The first loop pushed a ref of pair k: one of its refs is a mirror on R.
AlreadyPushed(k) == \E r \in RefsOf(k) : r.remote = args.push

\* C13: when relabel has run to its end, every local ref on a chain commit
\* has had its update-ref to the paired new commit, whatever --push and
\* --force are (and unless dry it now points there); with --push R, --force
\* and no push yet for the pair, the push of the same-name branch to R was
\* issued before that update-ref.
C13_LocalUpdatedAfterPush ==
    RelabelCompleted =>
        \A k \in Pairs : \A r \in LocalRefsOf(k) :
            /\ UpdateOf(r, k) # {}
            /\ ~args.dry => refs[r.path] = new_rebase_chain[k].hash
            /\ (args.push # None /\ args.force /\ ~AlreadyPushed(k)) =>
                   \E n \in PushOf(r, k) : \E m \in UpdateOf(r, k) : n < m

\* relabel has run to its end with --push o --force on a chain whose first
\* commit carries branch a and no mirror on o.
C13_Witness ==
    /\ RelabelCompleted
    /\ Rebased
    /\ ~args.dry
    /\ args.push = "o"
    /\ args.force
    /\ Len(rebase_chain) = 2
    /\ \E r \in LocalRefsOf(1) : r.name = "a" /\ PushOf(r, 1) # {}
    /\ ~AlreadyPushed(1)

\* The refs of the chain a push is due for: the mirrors on R, and with
\* --force the local refs of the pairs that have no mirror on R.
PushDue ==
    { kr \in UNION { {k} \X RefsOf(k) : k \in Pairs } :
        \/ kr[2].remote = args.push
        \/ kr[2].remote = None /\ args.force /\ ~AlreadyPushed(kr[1]) }

\* The last push issued for a branch name, 0 when there is none.
LastPush(name) ==
    LET ns == { n \in Issued("push") : cmds[n].ref = name }
    IN  IF ns = {} THEN 0 ELSE CHOOSE n \in ns : \A m \in ns : m <= n

\* C14: with --push R, not dry, when relabel has run to its end: for every
\* remote-tracking ref of remote R on a chain commit the branch of that name
\* on R has been pushed the paired new commit; the pushes issued are one per
\* ref a push is due for, so a remote-tracking ref of another remote has
\* caused none; and each branch of R is where the last push for it put it.
C14_MirrorsOnRPushed ==
    (RelabelCompleted /\ ~args.dry /\ args.push # None) =>
        /\ \A k \in Pairs : \A r \in RefsOf(k) :
               r.remote = args.push => PushOf(r, k) # {}
        /\ Cardinality(Issued("push")) = Cardinality(PushDue)
        /\ \A b \in RemoteBranches :
               /\ b[1] # args.push => ~IsNew(remote[b])
               /\ (b[1] = args.push /\ LastPush(b[2]) > 0) =>
                      remote[b] = cmds[LastPush(b[2])].hash

\* relabel has run to its end with --push o and no --force on a chain whose
\* second commit carries o/a: branch a of o is on the second new commit.
C14_Witness ==
    /\ RelabelCompleted
    /\ Rebased
    /\ ~args.dry
    /\ args.push = "o"
    /\ ~args.force
    /\ Len(rebase_chain) = 2
    /\ \E r \in RefsOf(2) : r.remote = "o" /\ r.name = "a" /\ PushOf(r, 2) # {}
    /\ remote[<<"o", "a">>] = NewHash(2)

---------------------------------------------------------------------------
(* A git command that fails inside main's try.                             *)

\* The commands issued before the final checkout of cmd.py:95.
BeforeRestore == IF pc = "done" /\ Len(cmds) > 0 THEN SubSeq(cmds, 1, Len(cmds) - 1) ELSE cmds

\* The update-ref and push commands among them.
Moves == { n \in 1..Len(BeforeRestore) : BeforeRestore[n].cmd \in {"update-ref", "push"} }

\* Command c did what it asks for.
TookEffect(c) ==
    IF c.cmd = "push" THEN remote[<<c.remote, c.ref>>] = c.hash ELSE refs[c.ref] = c.hash

\* C15: once a git command has failed the run only goes on to the checkout
\* of the position it started from.  When an update-ref or push was issued,
\* the failed command is the last of them and did nothing; a local ref of
\* the chain that is off its original commit was moved by an update-ref
\* before the failure; the last command of the run is the checkout of the
\* starting position, and HEAD is there when that checkout succeeded.
C15_FailureAbortsRelabel ==
    caught =>
        /\ pc \in {"restore", "done"}
        /\ Moves # {} =>
               /\ Len(BeforeRestore) \in Moves
               /\ ~TookEffect(BeforeRestore[Len(BeforeRestore)])
        /\ \A k \in Pairs : \A r \in LocalRefsOf(k) :
               refs[r.path] # rebase_chain[k].hash =>
                   \E n \in Moves \ {Len(BeforeRestore)} :
                       /\ BeforeRestore[n].cmd = "update-ref"
                       /\ BeforeRestore[n].ref = r.path
                       /\ BeforeRestore[n].hash = refs[r.path]
        /\ pc = "done" =>
               /\ Len(cmds) > 0
               /\ cmds[Len(cmds)] = Cmd("checkout", None, "", current_head, FALSE)
               /\ current_head = StartPos
               /\ lastCode = 0 => position = StartPos

\* The update-ref of branch b failed after that of branch a, on the same
\* commit, had run; the run has ended back where it started.
C15_Witness ==
    /\ caught
    /\ pc = "done"
    /\ lastCode = 0
    /\ new_commit # NoCommit
    /\ Cardinality(Moves) = 2
    /\ refs["refs/heads/a"] = NewHash(1)
    /\ refs["refs/heads/b"] = OldHash(1)
    /\ BeforeRestore[Len(BeforeRestore)].ref = "refs/heads/b"

---------------------------------------------------------------------------
(* relabel on a chain without refs.                                        *)

\* The chain relabel is given has commits, and none of them carries a ref.
ZeroRefs == Len(rebase_chain) > 0 /\ \A k \in Pairs : rebase_chain[k].refs = <<>>

\* C16: when no commit of the chain carries a ref and the history read back
\* is as long as the chain, relabel runs its loops to the end without a git
\* command, whatever --push, --force and --dry are: the rebase is the only
\* command issued before the final checkout of main, no update-ref, no push,
\* no checkout by relabel, and nothing fails.
C16_NoRefsNoCommands ==
    (ZeroRefs /\ Len(new_rebase_chain) = Len(rebase_chain)) =>
        /\ pc \in {"loop1", "loop2", "restore", "done"}
        /\ ~caught
        /\ Issued("update-ref") = {}
        /\ Issued("push") = {}
        /\ BeforeRestore = << Cmd("rebase", None, "", rebase_chain[1].hash, FALSE) >>
        /\ \A n \in Issued("checkout") : pc = "done" /\ n = Len(cmds) /\ cmds[n].hash = current_head

\* relabel has returned from a chain of two commits without refs, run with
\* --push o --force.
C16_Witness ==
    /\ ZeroRefs
    /\ Len(rebase_chain) = 2
    /\ Len(new_rebase_chain) = 2
    /\ pc = "restore"
    /\ args.push = "o" /\ args.force /\ ~args.dry
    /\ refs["refs/heads/a"] = OldHash(3)

---------------------------------------------------------------------------
(* The chain get_target returns.                                           *)

\* C17: a chain get_target returns that is not empty starts with the commit
\* the head name resolves to, and goes on in the order of the history.
C17_ChainStartsAtHead ==
    Len(rebase_chain) > 0 =>
        /\ rebase_chain[1].hash = ResolvedHead
        /\ \A k \in Pairs : rebase_chain[k].hash = OldHash(k)

\* get_target has returned a chain of two commits.
C17_Witness == pc = "apply_rebase" /\ Len(rebase_chain) = 2

---------------------------------------------------------------------------
(* Agreement of the remote with the local refs.                            *)

\* C18: not dry, with --push R and --force, when relabel has run to its end
\* after a rebase: for every local ref on a chain commit (of a pair whose
\* local refs are pushed) the last push issued to R for the branch of that
\* name carries the new commit the local ref was moved to, so the branch on
\* R and the local ref agree.
C18_LastPushMatchesLocal ==
    (RelabelCompleted /\ Rebased /\ ~args.dry /\ args.push # None /\ args.force) =>
        \A k \in Pairs : \A r \in LocalRefsOf(k) :
            ~AlreadyPushed(k) =>
                /\ LastPush(r.name) > 0
                /\ cmds[LastPush(r.name)].hash = new_rebase_chain[k].hash
                /\ remote[<<args.push, r.name>>] = refs[r.path]

---------------------------------------------------------------------------
(* What update-ref is given.                                               *)

\* The update-ref commands that name path p.
UpdatesOfPath(p) == { n \in Issued("update-ref") : cmds[n].ref = p }

\* C19: over the whole run every update-ref names a local ref of a chain
\* commit, by the path the log gave for it, and carries the new commit of
\* that pair; no path is named twice; when relabel has run to its end every
\* local ref of the chain has been named once.  So the target's branch, the
\* remote-tracking refs, and the refs on the ancestor or off the chain are
\* never given to update-ref.
C19_UpdateRefOnlyChainLocals ==
    /\ \A n \in Issued("update-ref") :
           /\ \E k \in Pairs : \E r \in LocalRefsOf(k) :
                  /\ cmds[n].ref = r.path
                  /\ r.path = "refs/heads/" \o r.name
                  /\ cmds[n].hash = NewHash(k)
                  /\ refs[r.path] \in {OldHash(k), NewHash(k)}
           /\ cmds[n].ref \notin {"refs/heads/main", "o/a", "o/b", "u/a", "u/b"}
           /\ \A r \in { rebase_ancestor.refs[m] : m \in 1..Len(rebase_ancestor.refs) } :
                  cmds[n].ref # r.path
           /\ UpdatesOfPath(cmds[n].ref) = {n}
    /\ RelabelCompleted =>
           \A k \in Pairs : \A r \in LocalRefsOf(k) : Cardinality(UpdatesOfPath(r.path)) = 1

\* relabel has run to its end on a chain with branch a on its first commit
\* and o/a on its second, branch b being on the ancestor.
C19_Witness ==
    /\ RelabelCompleted
    /\ Rebased
    /\ ~args.dry
    /\ Len(rebase_chain) = 2
    /\ refs["refs/heads/a"] = NewHash(1)
    /\ \E r \in RefsOf(2) : r.remote = "o"
    /\ refs["refs/heads/b"] = OldHash(3)
    /\ Cardinality(Issued("update-ref")) = 1

---------------------------------------------------------------------------
(* Where pushes go.                                                        *)

\* C20: every push of the run goes to the remote --push names; without
\* --push no push is issued, with or without --force; and no branch of
\* another remote, nor its remote-tracking ref, is moved to a new commit.
C20_PushOnlyToNamedRemote ==
    /\ \A n \in Issued("push") : args.push # None /\ cmds[n].remote = args.push
    /\ args.push = None => Issued("push") = {}
    /\ \A b \in RemoteBranches :
           b[1] # args.push => ~IsNew(remote[b]) /\ ~IsNew(refs[b[1] \o "/" \o b[2]])

\* relabel has run to its end with --force and no --push on a chain with
\* branch a on its first commit and o/a on its second.
C20_Witness ==
    /\ RelabelCompleted
    /\ Rebased
    /\ ~args.dry
    /\ args.push = None
    /\ args.force
    /\ Len(rebase_chain) = 2
    /\ refs["refs/heads/a"] = NewHash(1)
    /\ refs["o/a"] = OldHash(2)

====
